---------------------------- MODULE Spec2Model ----------------------------
(***************************************************************************)
(* Model of faster-folder's whisper_folder (src/main.py): file discovery,  *)
(* the per-file loop (skip-list, missing file, WAV conversion,             *)
(* transcription, segment folding, progress indicators, output writing,    *)
(* cleanup), the top-level interrupt handler of main, and the pure         *)
(* function format_srt_time.                                               *)
(*                                                                         *)
(* Times are Python floats (IEEE-754 binary64).  A float x >= 0 is held    *)
(* exactly as four base-2^24 limbs <<i, f2, f1, f0>> with                  *)
(*     x = i + f2/2^24 + f1/2^48 + f0/2^72,                                *)
(* and every float operation of the source is the exact operation on the   *)
(* limbs followed by rounding to 53 significant bits, ties to even.  Every *)
(* float met here is a multiple of 2^-72 below 2^24, so nothing is lost.   *)
(* A time input is named by a whole number of milliseconds T and stands    *)
(* for the float T/1000 (what Python evaluates T/1000 to).                 *)
(***************************************************************************)
EXTENDS Integers, Sequences, FiniteSets, TLC

(***************************************************************************)
(* binary64 arithmetic on limbs                                            *)
(***************************************************************************)
LimbBits == 24

Limb == 2^LimbBits

MantissaBits == 53

DZero == <<0, 0, 0, 0>>

RECURSIVE BitLen(_)
BitLen(n) == IF n = 0 THEN 0 ELSE 1 + BitLen(n \div 2)

\* Number of significant bits of x counted in units of 2^-72.
XLen(x) ==
    IF x[1] > 0 THEN 3 * LimbBits + BitLen(x[1])
    ELSE IF x[2] > 0 THEN 2 * LimbBits + BitLen(x[2])
    ELSE IF x[3] > 0 THEN LimbBits + BitLen(x[3])
    ELSE BitLen(x[4])

\* Carry propagation: limbs that may exceed 2^24 back to canonical form.
Norm(i, f2, f1, f0) ==
    LET g1 == f1 + (f0 \div Limb)
        g2 == f2 + (g1 \div Limb)
    IN  <<i + (g2 \div Limb), g2 % Limb, g1 % Limb, f0 % Limb>>

\* Round the exact value x (+ a non-zero tail below 2^-72 when sticky) to a
\* multiple of 2^(p-72), to nearest, ties to even.
RoundAt(x, p, sticky) ==
    IF p = 0 THEN x
    ELSE IF p <= LimbBits THEN
        LET g    == 2^p
            rem  == x[4] % g
            half == g \div 2
            lsb  == IF p < LimbBits THEN (x[4] \div g) % 2 ELSE x[3] % 2
            up   == rem > half \/ (rem = half /\ (sticky \/ lsb = 1))
        IN  Norm(x[1], x[2], x[3], x[4] - rem + (IF up THEN g ELSE 0))
    ELSE
        LET g    == 2^(p - LimbBits)
            rem  == x[3] % g
            half == g \div 2
            lsb  == (x[3] \div g) % 2
            gt   == rem > half \/ (rem = half /\ (x[4] > 0 \/ sticky))
            tie  == rem = half /\ x[4] = 0 /\ ~sticky
            up   == gt \/ (tie /\ lsb = 1)
        IN  Norm(x[1], x[2], x[3] - rem + (IF up THEN g ELSE 0), 0)

\* Rounding of an exact result to a binary64.
Round53(x, sticky) ==
    IF XLen(x) > MantissaBits THEN RoundAt(x, XLen(x) - MantissaBits, sticky) ELSE x

\* One step of the long division by 1000, twelve quotient bits at a time.
DivStep(r) == <<(r * 4096) \div 1000, (r * 4096) % 1000>>

\* The float T/1000 for a whole number of milliseconds T (correctly rounded).
FromMillis(T) ==
    LET s1 == DivStep(T % 1000)
        s2 == DivStep(s1[2])
        s3 == DivStep(s2[2])
        s4 == DivStep(s3[2])
        s5 == DivStep(s4[2])
        s6 == DivStep(s5[2])
    IN  Round53(<<T \div 1000, s1[1] * 4096 + s2[1], s3[1] * 4096 + s4[1],
                  s5[1] * 4096 + s6[1]>>, s6[2] > 0)

\* float(n) of a small non-negative int
FromInt(n) == <<n, 0, 0, 0>>

\* int(x): truncation toward zero
DInt(x) == x[1]

DLess(x, y) ==
    \/ x[1] < y[1]
    \/ x[1] = y[1] /\ x[2] < y[2]
    \/ x[1] = y[1] /\ x[2] = y[2] /\ x[3] < y[3]
    \/ x[1] = y[1] /\ x[2] = y[2] /\ x[3] = y[3] /\ x[4] < y[4]

\* The exact sum and, for y <= x, the exact difference.
ExactAdd(x, y) == Norm(x[1] + y[1], x[2] + y[2], x[3] + y[3], x[4] + y[4])

ExactSub(x, y) ==
    LET b0 == IF x[4] < y[4] THEN 1 ELSE 0
        b1 == IF x[3] - b0 < y[3] THEN 1 ELSE 0
        b2 == IF x[2] - b1 < y[2] THEN 1 ELSE 0
    IN  <<x[1] - y[1] - b2, x[2] - y[2] - b1 + b2 * Limb,
          x[3] - y[3] - b0 + b1 * Limb, x[4] - y[4] + b0 * Limb>>

\* x + y and x - y (for y <= x) as Python computes them
DAdd(x, y) == Round53(ExactAdd(x, y), FALSE)

DSub(x, y) == Round53(ExactSub(x, y), FALSE)

\* x * k exactly, for an int k <= 127
MulSmall(x, k) == Norm(x[1] * k, x[2] * k, x[3] * k, x[4] * k)

\* x * 1000 as Python computes it (1000 = 125 * 8)
Times1000(x) == Round53(MulSmall(MulSmall(x, 125), 8), FALSE)

(***************************************************************************)
(* format_srt_time                                                         *)
(***************************************************************************)
\* f"{n:0w}" for n >= 0
RECURSIVE ZeroPad(_, _)
ZeroPad(s, w) == IF w <= 0 THEN s ELSE ZeroPad("0" \o s, w - 1)

Digits(n) == (IF n < 10 THEN 1 ELSE IF n < 100 THEN 2 ELSE IF n < 1000 THEN 3
             ELSE IF n < 10000 THEN 4 ELSE IF n < 100000 THEN 5 ELSE 6)

Fmt0(n, w) == ZeroPad(ToString(n), w - Digits(n))

format_srt_time(seconds) ==
    LET ms == DInt(Times1000(DSub(seconds, FromInt(DInt(seconds)))))
        s  == DInt(seconds) % 60
        m  == (DInt(seconds) \div 60) % 60
        h  == DInt(seconds) \div 3600
    IN  Fmt0(h, 2) \o ":" \o Fmt0(m, 2) \o ":" \o Fmt0(s, 2) \o "," \o Fmt0(ms, 3)

(***************************************************************************)
(* Paths, the directory and the queue                                      *)
(***************************************************************************)
AUDIO_EXTS == {".mp3", ".wav", ".m4a", ".flac", ".avi", ".mp4", ".ts"}

SKIP_FILES == {"00. Professor.avi"}

MkPath(stem, suffix) == [stem |-> stem, suffix |-> suffix]

\* Path.name
Name(p) == p.stem \o p.suffix

\* str.lower() on the suffixes that occur
Lower(s) ==
    CASE s = ".MP3" -> ".mp3"
      [] s = ".WAV" -> ".wav"
      [] OTHER -> s

\* Path.with_suffix
with_suffix(p, suffix) == MkPath(p.stem, suffix)

\* Every path of the model, in the order Python sorts Path objects (by code
\* point: digits < upper case < lower case).
PathOrder ==
    << MkPath("00. Professor", ".avi"), MkPath("a", ".MP3"), MkPath("a", ".wav"),
       MkPath("notes", ".txt") >>

DirUniverse == {PathOrder[k] : k \in 1..Len(PathOrder)}

\* list.sort() of a list of paths
SortPaths(S) == SelectSeq(PathOrder, LAMBDA p : p \in S)

\* Lines 61-65: the directory entries the comprehension keeps
Matches(dir) == {p \in dir : Lower(p.suffix) \in AUDIO_EXTS}

\* The lists iterdir() can give for a set of entries: any order
Listings(S) ==
    {q \in [1..Cardinality(S) -> S] : \A i, j \in 1..Cardinality(S) : q[i] = q[j] => i = j}

StartOutOfRange_OffByOne(start, n) == start < 0 \/ start > n

\* Line 74
StartOutOfRange(start, n) == start < 0 \/ start > n - 1

\* Line 111
NeedsConversion(p) == Lower(p.suffix) # ".wav"

CheckRaises_Unchecked(rc) == FALSE

\* subprocess.run(..., check=True) raises CalledProcessError
CheckRaises(rc) == rc # 0

IsEmptyTranscript_Never(lines) == FALSE

\* Line 220: not srt_lines
IsEmptyTranscript(lines) == lines = <<>>

\* Line 236
ShouldUnlink(created, keep, wav_is_file) == created /\ ~keep /\ wav_is_file

(***************************************************************************)
(* The fold over one segment (lines 185-215)                               *)
(***************************************************************************)
\* Line 202: max(0.0, seg.end - last_end)
Delta(end, last) == IF DLess(last, end) THEN DSub(end, last) ELSE DZero

CarryRemainder_Dropped(acc, whole) == acc

\* Line 210: progress_accumulation -= whole_seconds
CarryRemainder(acc, whole) == DSub(acc, FromInt(whole))

\* "\n".join(lines)
RECURSIVE Join(_)
Join(lines) ==
    IF lines = <<>> THEN ""
    ELSE IF Len(lines) = 1 THEN lines[1]
    ELSE lines[1] \o "\n" \o Join(Tail(lines))

SrtBlock(idx, seg) ==
    << ToString(idx),
       format_srt_time(FromMillis(seg.start)) \o " --> " \o format_srt_time(FromMillis(seg.end)),
       seg.text,
       "" >>

(***************************************************************************)
(* Bounds and inputs                                                       *)
(***************************************************************************)
MaxSegs == 2

MaxStart == 4

MaxFmtMillis == 1100

\* What the speech engine may yield; start and end in milliseconds.
SegInputs ==
    { [text |-> "",   start |-> 0,    end |-> 400],
      [text |-> "hi", start |-> 0,    end |-> 400],
      [text |-> "hi", start |-> 400,  end |-> 1700],
      [text |-> "hi", start |-> 1700, end |-> 2000],
      [text |-> "hi", start |-> 1001, end |-> 3000] }

\* info.duration in milliseconds; 0 also stands for None (line 165)
Durations == {0, 500, 2000}

\* 255 is what ffmpeg exits with on a signal
ConverterExitCodes == {0, 1, 255}

FmtInputs == (0..MaxFmtMillis) \cup {59999, 3599999, 3661250, 86400001, 360000500}

(***************************************************************************)
(* State                                                                   *)
(***************************************************************************)
VARIABLES
    args,                  \* the parsed command line (lines 34-49)
    fs,                    \* the paths that exist in the directory
    pc,                    \* the statement the run stands before, or how it ended
    exit_code,             \* the process exit code <<c>>, <<>> while running
    files,                 \* the queue
    total_files,
    model_loaded,          \* WhisperModel(...) was constructed
    pbar_files,            \* outer indicator [n, total]
    count,
    iterated,              \* the values file_path has taken, in order
    created_wav_file,
    srt_lines,
    txt_lines,
    index,
    total_duration,
    last_end,
    progress_accumulation,
    pbar_audio,            \* inner indicator [n, total]
    consumed,              \* segments drawn from the generator for this file
    elapsed,               \* exact sum of the gaps folded for this file
    converted,             \* converter invocations [src, dst, rc]
    transcribed,           \* model.transcribe calls [pos, path]
    drained,               \* generators run to exhaustion [pos, usable, total]
    writes,                \* write_text calls [pos, path, text]
    unlinked,              \* unlink calls [pos, path]
    fmt_in,
    fmt_out

vars ==
    << args, fs, pc, exit_code, files, total_files, model_loaded, pbar_files, count,
       iterated, created_wav_file, srt_lines, txt_lines, index, total_duration, last_end,
       progress_accumulation, pbar_audio, consumed, elapsed, converted, transcribed,
       drained, writes, unlinked, fmt_in, fmt_out >>

runVars == << files, total_files, model_loaded, pbar_files, count >>

fileVars ==
    << created_wav_file, srt_lines, txt_lines, index, total_duration, last_end,
       progress_accumulation, pbar_audio, consumed, elapsed >>

logVars == << converted, transcribed, drained, writes, unlinked >>

fmtVars == << fmt_in, fmt_out >>

START == args.start - 1

SINGLE_FILE == args.single_file

CONVERT_TO_WAV_ONLY == args.convert_wav_only

KEEP_WAV_FILES == args.keep_wav_files

FILE_COUNT == args.file_count

\* 1-based queue position of the element the loop takes next / holds now
NextPos == START + Len(iterated) + 1

CurPos == START + Len(iterated)

\* The loop variable, and lines 110, 226 and 227
file_path == files[CurPos]

out_wav == with_suffix(file_path, ".wav")

out_txt == with_suffix(out_wav, ".txt")

out_srt == with_suffix(out_wav, ".srt")

HasNext == NextPos <= Len(files)

NoBar == [n |-> 0, total |-> 0]

\* The per-file locals before the code has assigned them.
FileIdle ==
    /\ created_wav_file = FALSE
    /\ srt_lines = <<>>
    /\ txt_lines = <<>>
    /\ index = 1
    /\ total_duration = DZero
    /\ last_end = DZero
    /\ progress_accumulation = DZero
    /\ pbar_audio = NoBar
    /\ consumed = 0
    /\ elapsed = DZero

ArgsSet ==
    [ start : 0..MaxStart,
      single_file : {<<>>, <<MkPath("a", ".MP3")>>},
      convert_wav_only : BOOLEAN,
      keep_wav_files : BOOLEAN,
      file_count : BOOLEAN ]

InitCommon ==
    /\ pc = "start"
    /\ exit_code = <<>>
    /\ files = <<>>
    /\ total_files = 0
    /\ model_loaded = FALSE
    /\ pbar_files = NoBar
    /\ count = 0
    /\ iterated = <<>>
    /\ FileIdle
    /\ converted = <<>>
    /\ transcribed = <<>>
    /\ drained = <<>>
    /\ writes = <<>>
    /\ unlinked = <<>>
    /\ fmt_out = ""

Init ==
    /\ args \in ArgsSet
    /\ fs \in SUBSET DirUniverse
    /\ fmt_in = 0
    /\ InitCommon

(***************************************************************************)
(* whisper_folder                                                          *)
(*                                                                         *)
(* KeyboardInterrupt can be raised between any two statements, so every    *)
(* statement with an effect outside the per-file locals (a converter run,  *)
(* a transcribe call, a write, an unlink, a counter or indicator update)   *)
(* is a step of its own, and Interrupt is enabled between the steps.  The  *)
(* per-file locals keep their values from one file to the next until the   *)
(* code assigns them again, as Python locals do.                           *)
(***************************************************************************)
\* Lines 53-65: the queue before it is sorted.  single_file is <<>> (not
\* given) or <<path>>; the directory is the working directory (the default of
\* --directory), so both readings of --single-file name one path.
StartRun ==
    /\ pc = "start"
    /\ IF SINGLE_FILE # <<>>
       THEN /\ files' = <<SINGLE_FILE[1]>>
            /\ pc' = "total"
       ELSE /\ files' \in Listings(Matches(fs))
            /\ pc' = "sort"
    /\ UNCHANGED <<args, fs, exit_code, total_files, model_loaded, pbar_files, count,
                   iterated, fileVars, logVars, fmtVars>>

\* Line 66
SortFiles ==
    /\ pc = "sort"
    /\ files' = SortPaths({files[k] : k \in 1..Len(files)})
    /\ pc' = "total"
    /\ UNCHANGED <<args, fs, exit_code, total_files, model_loaded, pbar_files, count,
                   iterated, fileVars, logVars, fmtVars>>

\* Line 68
CountFiles ==
    /\ pc = "total"
    /\ total_files' = Len(files)
    /\ pc' = "check"
    /\ UNCHANGED <<args, fs, exit_code, files, model_loaded, pbar_files, count, iterated,
                   fileVars, logVars, fmtVars>>

\* Lines 70-86: --file-count, the start check and the outer indicator
CheckStart ==
    /\ pc = "check"
    /\ IF FILE_COUNT
       THEN /\ pc' = "counted"
            /\ exit_code' = <<0>>
            /\ UNCHANGED pbar_files
       ELSE IF StartOutOfRange(START, Len(files))
       THEN /\ pc' = "aborted"
            /\ exit_code' = <<0>>
            /\ UNCHANGED pbar_files
       ELSE /\ pbar_files' = [n |-> START, total |-> total_files]
            /\ pc' = "count"
            /\ UNCHANGED exit_code
    /\ UNCHANGED <<args, fs, files, total_files, model_loaded, count, iterated, fileVars,
                   logVars, fmtVars>>

\* Line 88
InitCount ==
    /\ pc = "count"
    /\ count' = START + 1
    /\ pc' = "load"
    /\ UNCHANGED <<args, fs, exit_code, files, total_files, model_loaded, pbar_files,
                   iterated, fileVars, logVars, fmtVars>>

\* Line 91
LoadModel ==
    /\ pc = "load"
    /\ model_loaded' = TRUE
    /\ pc' = "loop"
    /\ UNCHANGED <<args, fs, exit_code, files, total_files, pbar_files, count, iterated,
                   fileVars, logVars, fmtVars>>

\* Lines 93-94: the loop takes the next queue element
TakeFile ==
    /\ pc = "loop" /\ HasNext
    /\ iterated' = Append(iterated, files[NextPos])
    /\ created_wav_file' = FALSE
    /\ pc' = "taken"
    /\ UNCHANGED <<args, fs, exit_code, runVars, srt_lines, txt_lines, index,
                   total_duration, last_end, progress_accumulation, pbar_audio, consumed,
                   elapsed, logVars, fmtVars>>

\* Lines 95-98
SkipListed ==
    /\ pc = "taken"
    /\ Name(file_path) \in SKIP_FILES
    /\ count' = count + 1
    /\ pc' = "loop"
    /\ UNCHANGED <<args, fs, exit_code, files, total_files, model_loaded, pbar_files,
                   iterated, fileVars, logVars, fmtVars>>

\* Lines 100-103
MissingFile ==
    /\ pc = "taken"
    /\ Name(file_path) \notin SKIP_FILES
    /\ file_path \notin fs
    /\ count' = count + 1
    /\ pc' = "loop"
    /\ UNCHANGED <<args, fs, exit_code, files, total_files, model_loaded, pbar_files,
                   iterated, fileVars, logVars, fmtVars>>

\* Lines 110-113: created_wav_file is set and subprocess.run starts the
\* converter and waits for it.
StartConvert ==
    /\ pc = "taken"
    /\ Name(file_path) \notin SKIP_FILES
    /\ file_path \in fs
    /\ NeedsConversion(file_path)
    /\ created_wav_file' = TRUE
    /\ pc' = "converting"
    /\ UNCHANGED <<args, fs, exit_code, runVars, iterated, srt_lines, txt_lines, index,
                   total_duration, last_end, progress_accumulation, pbar_audio, consumed,
                   elapsed, logVars, fmtVars>>

\* Lines 113-131 when the converter exits non-zero: CalledProcessError leaves
\* whisper_folder and main (which catches KeyboardInterrupt only); the
\* interpreter exits with code 1.  The converter may have left its output.
ConvertFails ==
    /\ pc = "converting"
    /\ \E rc \in ConverterExitCodes, partial \in BOOLEAN :
        /\ CheckRaises(rc)
        /\ converted' = Append(converted, [src |-> file_path, dst |-> out_wav, rc |-> rc])
        /\ fs' = IF partial THEN fs \cup {out_wav} ELSE fs
    /\ pc' = "crashed"
    /\ exit_code' = <<1>>
    /\ UNCHANGED <<args, runVars, iterated, fileVars, transcribed, drained, writes,
                   unlinked, fmtVars>>

\* Lines 113-131 when subprocess.run returns
ConvertDone ==
    /\ pc = "converting"
    /\ \E rc \in ConverterExitCodes :
        /\ ~CheckRaises(rc)
        /\ converted' = Append(converted, [src |-> file_path, dst |-> out_wav, rc |-> rc])
        /\ fs' = fs \cup {out_wav}
    /\ pc' = "converted"
    /\ UNCHANGED <<args, exit_code, runVars, iterated, fileVars, transcribed, drained,
                   writes, unlinked, fmtVars>>

\* Lines 113-131 and 249-252: KeyboardInterrupt while subprocess.run waits.
\* subprocess.run reaps the converter (which ends on the same signal, is
\* killed, or had just finished) and re-raises; main exits with 130 whatever
\* the converter's exit status.
InterruptConverter ==
    /\ pc = "converting"
    /\ \E rc \in ConverterExitCodes, partial \in BOOLEAN :
        /\ converted' = Append(converted, [src |-> file_path, dst |-> out_wav, rc |-> rc])
        /\ fs' = IF rc = 0 \/ partial THEN fs \cup {out_wav} ELSE fs
    /\ pc' = "interrupted"
    /\ exit_code' = <<130>>
    /\ UNCHANGED <<args, runVars, iterated, fileVars, transcribed, drained, writes,
                   unlinked, fmtVars>>

\* Lines 135-137, inside the branch of line 111
ConvertOnly ==
    /\ pc = "converted"
    /\ CONVERT_TO_WAV_ONLY
    /\ count' = count + 1
    /\ pc' = "loop"
    /\ UNCHANGED <<args, fs, exit_code, files, total_files, model_loaded, pbar_files,
                   iterated, fileVars, logVars, fmtVars>>

\* Lines 139-160: the model.transcribe call, reached by a .wav input straight
\* from line 111 and by a converted input when --convert-wav-only is off.
BeginTranscribe ==
    /\ \/ /\ pc = "taken"
          /\ Name(file_path) \notin SKIP_FILES
          /\ file_path \in fs
          /\ ~NeedsConversion(file_path)
       \/ /\ pc = "converted"
          /\ ~CONVERT_TO_WAV_ONLY
    /\ transcribed' = Append(transcribed, [pos |-> CurPos, path |-> out_wav])
    /\ pc' = "setup"
    /\ UNCHANGED <<args, fs, exit_code, runVars, iterated, fileVars, converted, drained,
                   writes, unlinked, fmtVars>>

\* Lines 162-179: the per-file locals and the inner indicator; info.duration
\* is drawn where it is read.
SetupFile ==
    /\ pc = "setup"
    /\ \E d \in Durations :
        /\ total_duration' = FromMillis(d)
        /\ pbar_audio' = [n |-> 0, total |-> DInt(FromMillis(d))]
    /\ srt_lines' = <<>>
    /\ txt_lines' = <<>>
    /\ index' = 1
    /\ last_end' = DZero
    /\ progress_accumulation' = DZero
    /\ consumed' = 0
    /\ elapsed' = DZero
    /\ pc' = "segments"
    /\ UNCHANGED <<args, fs, exit_code, runVars, iterated, created_wav_file, logVars,
                   fmtVars>>

\* Lines 181-215: one pass of the loop over the segment generator.  A pass
\* touches the per-file locals and the inner indicator only.
Segment(seg) ==
    /\ pc = "segments"
    /\ consumed < MaxSegs
    /\ consumed' = consumed + 1
    /\ IF seg.text = ""
       THEN UNCHANGED <<srt_lines, txt_lines, index, last_end, progress_accumulation,
                        pbar_audio, elapsed>>
       ELSE LET end           == FromMillis(seg.end)
                acc           == DAdd(progress_accumulation, Delta(end, last_end))
                whole_seconds == DInt(acc)
            IN  /\ srt_lines' = srt_lines \o SrtBlock(index, seg)
                /\ txt_lines' = Append(txt_lines, seg.text)
                /\ last_end' = end
                /\ IF whole_seconds > 0
                   THEN /\ pbar_audio' = [pbar_audio EXCEPT !.n = @ + whole_seconds]
                        /\ progress_accumulation' = CarryRemainder(acc, whole_seconds)
                   ELSE /\ progress_accumulation' = acc
                        /\ UNCHANGED pbar_audio
                /\ index' = index + 1
                /\ elapsed' = ExactAdd(elapsed,
                       IF DLess(last_end, end) THEN ExactSub(end, last_end) ELSE DZero)
    /\ UNCHANGED <<args, fs, pc, exit_code, runVars, iterated, created_wav_file,
                   total_duration, logVars, fmtVars>>

\* Lines 181 and 216-220 once the generator is exhausted.  pbar_audio is
\* closed by then, so update(remaining) changes nothing.  With nothing
\* remaining, lines 218-239 are skipped altogether.
FinishFile ==
    /\ pc = "segments"
    /\ drained' = Append(drained,
           [pos |-> CurPos, usable |-> index - 1, total |-> pbar_audio.total])
    /\ pc' = IF pbar_audio.total - pbar_audio.n > 0
             THEN IF IsEmptyTranscript(srt_lines) THEN "empty" ELSE "write_txt"
             ELSE "tick"
    /\ UNCHANGED <<args, fs, exit_code, runVars, iterated, fileVars, converted,
                   transcribed, writes, unlinked, fmtVars>>

\* Lines 221-223
EmptyTranscript ==
    /\ pc = "empty"
    /\ count' = count + 1
    /\ pc' = "loop"
    /\ UNCHANGED <<args, fs, exit_code, files, total_files, model_loaded, pbar_files,
                   iterated, fileVars, logVars, fmtVars>>

\* Line 229
WriteTxt ==
    /\ pc = "write_txt"
    /\ writes' = Append(writes, [pos |-> CurPos, path |-> out_txt, text |-> Join(txt_lines)])
    /\ fs' = fs \cup {out_txt}
    /\ pc' = "write_srt"
    /\ UNCHANGED <<args, exit_code, runVars, iterated, fileVars, converted, transcribed,
                   drained, unlinked, fmtVars>>

\* Line 230
WriteSrt ==
    /\ pc = "write_srt"
    /\ writes' = Append(writes, [pos |-> CurPos, path |-> out_srt, text |-> Join(srt_lines)])
    /\ fs' = fs \cup {out_srt}
    /\ pc' = "cleanup"
    /\ UNCHANGED <<args, exit_code, runVars, iterated, fileVars, converted, transcribed,
                   drained, unlinked, fmtVars>>

\* Lines 236-237
Cleanup ==
    /\ pc = "cleanup"
    /\ IF ShouldUnlink(created_wav_file, KEEP_WAV_FILES, out_wav \in fs)
       THEN /\ unlinked' = Append(unlinked, [pos |-> CurPos, path |-> out_wav])
            /\ fs' = fs \ {out_wav}
       ELSE UNCHANGED <<unlinked, fs>>
    /\ pc' = "advance"
    /\ UNCHANGED <<args, exit_code, runVars, iterated, fileVars, converted, transcribed,
                   drained, writes, fmtVars>>

\* Line 239
Advance ==
    /\ pc = "advance"
    /\ count' = count + 1
    /\ pc' = "tick"
    /\ UNCHANGED <<args, fs, exit_code, files, total_files, model_loaded, pbar_files,
                   iterated, fileVars, logVars, fmtVars>>

\* Line 240
Tick ==
    /\ pc = "tick"
    /\ pbar_files' = [pbar_files EXCEPT !.n = @ + 1]
    /\ pc' = "loop"
    /\ UNCHANGED <<args, fs, exit_code, files, total_files, model_loaded, count,
                   iterated, fileVars, logVars, fmtVars>>

\* Lines 242-243 and the normal return of main
FinishRun ==
    /\ pc = "loop" /\ ~HasNext
    /\ pc' = "done"
    /\ exit_code' = <<0>>
    /\ UNCHANGED <<args, fs, runVars, iterated, fileVars, logVars, fmtVars>>

Running ==
    { "start", "sort", "total", "check", "count", "load", "loop", "taken", "converted",
      "setup", "segments", "empty", "write_txt", "write_srt", "cleanup", "advance",
      "tick" }

\* Lines 247-252: KeyboardInterrupt between two steps of whisper_folder
Interrupt ==
    /\ pc \in Running
    /\ pc' = "interrupted"
    /\ exit_code' = <<130>>
    /\ UNCHANGED <<args, fs, runVars, iterated, fileVars, logVars, fmtVars>>

Next ==
    \/ StartRun
    \/ SortFiles
    \/ CountFiles
    \/ CheckStart
    \/ InitCount
    \/ LoadModel
    \/ TakeFile
    \/ SkipListed
    \/ MissingFile
    \/ StartConvert
    \/ ConvertFails
    \/ ConvertDone
    \/ InterruptConverter
    \/ ConvertOnly
    \/ BeginTranscribe
    \/ SetupFile
    \/ \E seg \in SegInputs : Segment(seg)
    \/ FinishFile
    \/ EmptyTranscript
    \/ WriteTxt
    \/ WriteSrt
    \/ Cleanup
    \/ Advance
    \/ Tick
    \/ FinishRun
    \/ Interrupt

Spec == Init /\ [][Next]_vars

(***************************************************************************)
(* format_srt_time applied to inputs of its own                            *)
(***************************************************************************)
InitFormat ==
    /\ args = [start |-> 1, single_file |-> <<>>, convert_wav_only |-> FALSE,
               keep_wav_files |-> FALSE, file_count |-> FALSE]
    /\ fs = {}
    /\ fmt_in \in FmtInputs
    /\ InitCommon

Format ==
    /\ pc = "start"
    /\ fmt_out = ""
    /\ fmt_out' = format_srt_time(FromMillis(fmt_in))
    /\ UNCHANGED <<args, fs, pc, exit_code, runVars, iterated, fileVars, logVars, fmt_in>>

SpecFormat == InitFormat /\ [][Format]_vars

(***************************************************************************)
(* Properties                                                              *)
(***************************************************************************)
IsWav(p) == Lower(p.suffix) = ".wav"

WritesOf(pos, suffix) ==
    {j \in 1..Len(writes) : writes[j].pos = pos /\ writes[j].path.suffix = suffix}

Terminal == pc \in {"done", "counted", "aborted", "crashed", "interrupted"}

\* The loop body has run to its end for the queue element at pos (the loop
\* stands before a later element, or the run completed).
Handled(pos) == pos < CurPos \/ (pos = CurPos /\ pc \in {"loop", "done"})

\* C1: every file whose generator was run to exhaustion and gave at least one
\* segment with non-empty text has, once the loop body is through with it, its
\* .srt and its .txt written exactly once; no output is written twice, and
\* nothing is written for a file before its generator is exhausted.
C1_OutputsWrittenOnce ==
    /\ \A k \in 1..Len(drained) :
          (drained[k].usable > 0 /\ Handled(drained[k].pos)) =>
              /\ Cardinality(WritesOf(drained[k].pos, ".srt")) = 1
              /\ Cardinality(WritesOf(drained[k].pos, ".txt")) = 1
    /\ \A k \in 1..Len(drained) :
          /\ Cardinality(WritesOf(drained[k].pos, ".srt")) <= 1
          /\ Cardinality(WritesOf(drained[k].pos, ".txt")) <= 1
    /\ \A j \in 1..Len(writes) : \E k \in 1..Len(drained) : drained[k].pos = writes[j].pos

\* C2: a queue entry that is already .wav is never the converter's input, is
\* never unlinked, and still exists.
C2_WavEntriesUntouched ==
    \A k \in 1..Len(files) :
        IsWav(files[k]) =>
            /\ files[k] \in fs
            /\ \A j \in 1..Len(converted) : converted[j].src # files[k]
            /\ \A j \in 1..Len(unlinked) : unlinked[j].path # files[k]

\* C3: with --convert-wav-only nothing is transcribed, written or deleted.
C3_ConvertOnlyStopsAfterConversion ==
    CONVERT_TO_WAV_ONLY => transcribed = <<>> /\ writes = <<>> /\ unlinked = <<>>

\* C4: with --start N and 1 <= N <= queue length the loop takes the queue
\* elements N, N+1, ... in order, each once, and all of them by the time the
\* run completes; with N out of range nothing is loaded, converted,
\* transcribed, written or deleted and no file is taken.
C4_StartIndex ==
    (pc \notin {"start", "sort", "total", "check"} /\ ~FILE_COUNT) =>
        IF 1 <= args.start /\ args.start <= Len(files)
        THEN /\ \A k \in 1..Len(iterated) :
                    /\ args.start + k - 1 <= Len(files)
                    /\ iterated[k] = files[args.start + k - 1]
             /\ pc = "done" => Len(iterated) = Len(files) - args.start + 1
        ELSE /\ pc \in {"aborted", "interrupted"}
             /\ ~model_loaded
             /\ iterated = <<>>
             /\ converted = <<>> /\ transcribed = <<>> /\ writes = <<>> /\ unlinked = <<>>

C4_Witness ==
    /\ pc = "done"
    /\ args.start = 2
    /\ Len(files) = 3
    /\ iterated = <<files[2], files[3]>>

\* C5: a file whose generator gave no segment with non-empty text gets no
\* output written, whatever its duration, and the run goes on: after it the
\* run is at the empty-transcript report, at the outer tick or back in the
\* loop, or done if it was the last file (or interrupted by the operator),
\* never crashed.
C5_EmptyTranscriptSkipped ==
    \A k \in 1..Len(drained) :
        drained[k].usable = 0 =>
            /\ WritesOf(drained[k].pos, ".srt") = {}
            /\ WritesOf(drained[k].pos, ".txt") = {}
            /\ drained[k].pos = CurPos => pc \in {"empty", "tick", "loop", "done", "interrupted"}

\* A file shorter than one second gave no usable segment, and a later file
\* was transcribed.
C5_Witness ==
    \E k \in 1..Len(drained) :
        /\ drained[k].usable = 0
        /\ drained[k].total = 0
        /\ \E j \in 1..Len(transcribed) : transcribed[j].pos > drained[k].pos

\* Nothing beyond the conversion happened for the queue element in hand.
NothingForCurrent ==
    /\ \A j \in 1..Len(transcribed) : transcribed[j].pos # CurPos
    /\ \A j \in 1..Len(writes) : writes[j].pos # CurPos
    /\ \A j \in 1..Len(unlinked) : unlinked[j].pos # CurPos

\* C6 as stated: a non-zero converter exit ends the run there (it is the last
\* converter call, the failed file is the last one taken, nothing was
\* transcribed, written or unlinked for it) and the process exit code is
\* neither 0 nor 130.
C6_ExitCodeNeverInterrupt ==
    \A k \in 1..Len(converted) :
        converted[k].rc # 0 =>
            /\ k = Len(converted)
            /\ iterated[Len(iterated)] = converted[k].src
            /\ NothingForCurrent
            /\ exit_code # <<>> /\ exit_code # <<0>> /\ exit_code # <<130>>

\* C6 amended: a non-zero converter exit ends the run there (it is the last
\* converter call, the failed file is the last one taken, nothing was
\* transcribed, written or unlinked for it, no later file is taken); the
\* process ends with exit code 1 when subprocess.run raises
\* CalledProcessError, and with 130 only when the operator's interrupt
\* arrived while the converter was running.
C6_ConverterFailureFatal ==
    \A k \in 1..Len(converted) :
        converted[k].rc # 0 =>
            /\ k = Len(converted)
            /\ iterated[Len(iterated)] = converted[k].src
            /\ NothingForCurrent
            /\ \/ pc = "crashed" /\ exit_code = <<1>>
               \/ pc = "interrupted" /\ exit_code = <<130>> /\ created_wav_file

\* The converter failed on a file that is not the last of the queue.
C6_Witness ==
    /\ pc = "crashed"
    /\ \E k \in 1..Len(converted) : converted[k].rc # 0
    /\ HasNext

\* C7: when a run that passed the start check completes, the outer indicator
\* stands at the queue length.
C7_OuterIndicatorComplete == pc = "done" => pbar_files.n = Len(files)

Expected(T) ==
    Fmt0(T \div 3600000, 2) \o ":" \o Fmt0((T \div 60000) % 60, 2) \o ":"
        \o Fmt0((T \div 1000) % 60, 2) \o "," \o Fmt0(T % 1000, 3)

\* C8: format_srt_time of T milliseconds is HH:MM:SS,mmm with hours
\* T div 3600000, minutes (T div 60000) mod 60, seconds (T div 1000) mod 60
\* and milliseconds T mod 1000.
C8_FormatOfMillis == fmt_out # "" => fmt_out = Expected(fmt_in)

\* C9: whenever the loop is about to take a queue element, and while it
\* handles one (up to the statement that advances the counter), the counter is
\* that element's 1-based queue position.
C9_CounterIsPosition ==
    /\ (pc = "loop" /\ HasNext) => count = NextPos
    /\ pc \in {"taken", "converting", "converted", "setup", "segments", "empty",
               "write_txt", "write_srt", "cleanup", "advance"} => count = CurPos

AbsDiff(x, y) == IF DLess(x, y) THEN ExactSub(y, x) ELSE ExactSub(x, y)

\* Whole-second updates issued so far plus the leftover, exactly.
Accounted == ExactAdd(FromInt(pbar_audio.n), progress_accumulation)

\* C10 as stated: updates plus leftover equal the elapsed segment time, and
\* the leftover is below one second.
C10_CarryExact ==
    pc = "segments" => Accounted = elapsed /\ DInt(progress_accumulation) = 0

\* C10 amended: updates plus leftover differ from the elapsed segment time by
\* at most the rounding of the float operations, k * 2^-51 * max(1, E) seconds
\* after k folded segments with end-times up to E (here E <= 3 s), and the
\* leftover is at least 0 and below one second.
C10_CarryWithinRounding ==
    pc = "segments" =>
        /\ ~DLess(Norm(0, 0, 0, (index - 1) * 3 * 2^21), AbsDiff(Accounted, elapsed))
        /\ DInt(progress_accumulation) = 0
        /\ \A k \in 1..4 : progress_accumulation[k] >= 0

\* Two segments folded, a whole second issued, a leftover carried, and the
\* float sum off the exact elapsed time.
C10_Witness ==
    /\ pc = "segments"
    /\ index = 3
    /\ pbar_audio.n >= 1
    /\ progress_accumulation # DZero
    /\ Accounted # elapsed

=============================================================================
